---- MODULE Spec2Model ----
(***************************************************************************)
(* The /api/jobs handler of api/index.py (_jobs_handler) and the helpers   *)
(* it calls, as a state machine: a client assembles a request (query       *)
(* string + JSON body), the handler merges, parses, validates, calls the   *)
(* scraping library once and serialises the answer.                        *)
(* Spec is one request; Twice lets the client send the same request once   *)
(* more to the same process; HelperSpec applies _bool, _int, _csv_list and *)
(* df_to_safe_records on their own to values a caller may hand them;       *)
(* Concurrent interleaves the handler calls of requests handled at the     *)
(* same time.                                                              *)
(*                                                                         *)
(* Python values are records [t, s, n, l]: t the type tag, s the text of a *)
(* str, n the number of an int/bool (or the size of a dict), l the         *)
(* elements of a list.  A text is a sequence of lexemes: a lexeme is       *)
(* either one of the characters the code inspects (comma, blank, quote,    *)
(* backslash, sign, digit) or an unbroken run of other characters.         *)
(***************************************************************************)
EXTENDS Integers, Sequences, FiniteSets, TLC

\* ---------------------------------------------------------------- bounds

\* Most parameters (query-string entries + body entries) one request carries.
MaxParams == 2

\* ---------------------------------------------------------------- values

V(t, s, n, l) == [t |-> t, s |-> s, n |-> n, l |-> l]

\* A key a dict does not hold.
Missing == V("missing", <<>>, 0, <<>>)

\* Python None / JSON null.
PyNone == V("none", <<>>, 0, <<>>)

PyStrV(s) == V("str", s, 0, <<>>)

PyInt(n) == V("int", <<>>, n, <<>>)

PyBool(b) == V("bool", <<>>, IF b THEN 1 ELSE 0, <<>>)

\* float('inf'): what json.loads makes of 1e999 or Infinity.
PyInf == V("float", <<"inf">>, 0, <<>>)

PyList(l) == V("list", <<>>, 0, l)

\* A dict value of n entries whose content the handler never looks into.
PyDict(n) == V("dict", <<>>, n, <<>>)

\* An exception that left a helper uncaught.
Raised(exc) == V("raise", <<exc>>, 0, <<>>)

IsRaised(v) == v.t = "raise"

\* Python truthiness (x or y, if x:).
Truthy(v) ==
    CASE v.t = "none"  -> FALSE
      [] v.t = "str"   -> v.s # <<>>
      [] v.t = "int"   -> v.n # 0
      [] v.t = "bool"  -> v.n # 0
      [] v.t = "float" -> TRUE
      [] v.t = "list"  -> v.l # <<>>
      [] v.t = "dict"  -> v.n # 0
      [] OTHER         -> FALSE

\* hash(v) succeeds: lists and dicts are unhashable.
Hashable(v) == v.t \notin {"list", "dict"}

\* The elements of a sequence, as a set.
Range(q) == {q[i] : i \in 1..Len(q)}

\* x or None
OrNone(v) == IF Truthy(v) THEN v ELSE PyNone

\* x or d
OrDefault(v, d) == IF Truthy(v) THEN v ELSE d

\* ----------------------------------------------------------------- texts

Blank == " "

DigitChars == <<"0", "1", "2", "3", "4", "5", "6", "7", "8", "9">>

IsDigit(c) == \E i \in 1..10 : DigitChars[i] = c

DigitVal(c) == (CHOOSE i \in 1..10 : DigitChars[i] = c) - 1

RECURSIVE NatStr(_)
NatStr(n) ==
    IF n < 10 THEN <<DigitChars[n + 1]>>
    ELSE NatStr(n \div 10) \o <<DigitChars[(n % 10) + 1]>>

\* str(n) of an int.
IntStr(n) == IF n < 0 THEN <<"-">> \o NatStr(-n) ELSE NatStr(n)

RECURSIVE LStrip(_)
LStrip(s) == IF s # <<>> /\ Head(s) = Blank THEN LStrip(Tail(s)) ELSE s

RECURSIVE RStrip(_)
RStrip(s) ==
    IF s # <<>> /\ s[Len(s)] = Blank THEN RStrip(SubSeq(s, 1, Len(s) - 1)) ELSE s

\* str.strip()
Strip(s) == RStrip(LStrip(s))

\* str.split(","): the pieces between the commas, empty pieces included.
RECURSIVE SplitAcc(_, _, _)
SplitAcc(s, cur, acc) ==
    IF s = <<>> THEN Append(acc, cur)
    ELSE IF Head(s) = "," THEN SplitAcc(Tail(s), <<>>, Append(acc, cur))
    ELSE SplitAcc(Tail(s), Append(cur, Head(s)), acc)

Split(s) == SplitAcc(s, <<>>, <<>>)

RECURSIVE DigitsVal(_, _)
DigitsVal(s, acc) ==
    IF s = <<>> THEN acc ELSE DigitsVal(Tail(s), 10 * acc + DigitVal(Head(s)))

AllDigits(s) == s # <<>> /\ \A i \in 1..Len(s) : IsDigit(s[i])

\* int(text): blanks around, an optional sign, then digits; anything else is a
\* ValueError.  [ok, n].
ParseInt(s) ==
    LET t == Strip(s)
        signed == t # <<>> /\ Head(t) \in {"-", "+"}
        d == IF signed THEN Tail(t) ELSE t
    IN  IF AllDigits(d)
        THEN [ok |-> TRUE,
              n |-> IF signed /\ Head(t) = "-" THEN 0 - DigitsVal(d, 0) ELSE DigitsVal(d, 0)]
        ELSE [ok |-> FALSE, n |-> 0]

\* str.lower() on the lexemes that hold upper-case letters.
LowerLex(c) ==
    CASE c = "TRUE" -> "true"
      [] c = "True" -> "true"
      [] c = "tRuE" -> "true"
      [] c = "yEs"  -> "yes"
      [] c = "YES"  -> "yes"
      [] c = "Yes"  -> "yes"
      [] c = "False" -> "false"
      [] c = "None" -> "none"
      [] OTHER -> c

Lower(s) == [i \in 1..Len(s) |-> LowerLex(s[i])]

\* repr(str): single quotes unless the text holds a single quote and no double
\* quote; the quote in use and every backslash are escaped.
RECURSIVE Escape(_, _)
Escape(s, q) ==
    IF s = <<>> THEN <<>>
    ELSE IF Head(s) = "\\" \/ Head(s) = q THEN <<"\\", Head(s)>> \o Escape(Tail(s), q)
    ELSE <<Head(s)>> \o Escape(Tail(s), q)

HasLex(s, c) == \E i \in 1..Len(s) : s[i] = c

ReprStr(s) ==
    LET q == IF HasLex(s, "'") /\ ~HasLex(s, "\"") THEN "\"" ELSE "'"
    IN  <<q>> \o Escape(s, q) \o <<q>>

\* str(v) and repr(v); a list prints the repr of its elements.
RECURSIVE PyRepr(_)
RECURSIVE JoinRepr(_)
JoinRepr(l) ==
    IF l = <<>> THEN <<>>
    ELSE IF Len(l) = 1 THEN PyRepr(l[1])
    ELSE PyRepr(l[1]) \o <<",", Blank>> \o JoinRepr(Tail(l))

PyRepr(v) ==
    CASE v.t = "str"   -> ReprStr(v.s)
      [] v.t = "int"   -> IntStr(v.n)
      [] v.t = "bool"  -> IF v.n = 1 THEN <<"True">> ELSE <<"False">>
      [] v.t = "none"  -> <<"None">>
      [] v.t = "float" -> v.s
      [] v.t = "list"  -> <<"[">> \o JoinRepr(v.l) \o <<"]">>
      [] v.t = "dict"  -> IF v.n = 0 THEN <<"{}">> ELSE <<"{", "'", "k", "'", ":", Blank, "1", "}">>
      [] OTHER         -> <<>>

PyStr(v) == IF v.t = "str" THEN v.s ELSE PyRepr(v)

\* needle in haystack, for texts.
Contains(hay, needle) ==
    \E i \in 0..(Len(hay) - Len(needle)) :
        \A j \in 1..Len(needle) : hay[i + j] = needle[j]

\* --------------------------------------------------------------- helpers

TRUTHY == {<<"1">>, <<"true">>, <<"yes">>}

\* Mutant of _bool: an absent value taken for false.
_bool_AbsentIsFalse(val) ==
    CASE val.t = "none" -> PyBool(FALSE)
      [] val.t = "bool" -> val
      [] val.t = "int"  -> PyBool(val.n # 0)
      [] OTHER          -> PyBool(Lower(PyStr(val)) \in TRUTHY)

\* _bool(val)
_bool(val) ==
    CASE val.t = "none" -> PyNone
      [] val.t = "bool" -> val
      [] val.t = "int"  -> PyBool(val.n # 0)
      [] OTHER          -> PyBool(Lower(PyStr(val)) \in TRUTHY)

\* int(val): the value, or the exception it raises.
IntCast(val) ==
    CASE val.t = "str"   -> LET r == ParseInt(val.s)
                            IN  IF r.ok THEN PyInt(r.n) ELSE Raised("ValueError")
      [] val.t = "int"   -> val
      [] val.t = "bool"  -> PyInt(val.n)
      [] val.t = "float" -> IF val.s \in {<<"inf">>, <<"-inf">>} THEN Raised("OverflowError")
                            ELSE IF val.s = <<"nan">> THEN Raised("ValueError")
                            ELSE PyInt(val.n)
      [] OTHER           -> Raised("TypeError")

\* except (ValueError, TypeError)
CaughtByHelpers == {"ValueError", "TypeError"}

Caught(r) == IsRaised(r) /\ r.s[1] \in CaughtByHelpers

Uncaught(r) == IsRaised(r) /\ r.s[1] \notin CaughtByHelpers

\* Mutant of _int: the default forgotten, None returned in its place.
_int_DefaultForgotten(val, default) ==
    IF val.t = "none" \/ val = PyStrV(<<>>) THEN PyNone
    ELSE LET r == IntCast(val)
         IN  IF Caught(r) THEN PyNone ELSE r

\* _int(val, default)
_int(val, default) ==
    IF val.t = "none" \/ val = PyStrV(<<>>) THEN default
    ELSE LET r == IntCast(val)
         IN  IF Caught(r) THEN default ELSE r

\* cast(v) of _csv_list: str never fails, int as IntCast.
CastElem(v, cast) == IF cast = "int" THEN IntCast(v) ELSE PyStrV(PyStr(v))

\* The loop "try: result.append(cast(v)) except (ValueError, TypeError): pass":
\* the list of the elements that cast, or the exception that escaped.
RECURSIVE CastAll(_, _, _)
CastAll(l, cast, acc) ==
    IF l = <<>> THEN PyList(acc)
    ELSE LET r == CastElem(Head(l), cast)
         IN  IF Uncaught(r) THEN r
             ELSE IF Caught(r) THEN CastAll(Tail(l), cast, acc)
             ELSE CastAll(Tail(l), cast, Append(acc, r))

\* result or None
ListOrNone(r) == IF IsRaised(r) THEN r ELSE OrNone(r)

\* [v.strip() for v in str(val).split(",") if v.strip()]
RECURSIVE StripParts(_)
StripParts(ps) ==
    IF ps = <<>> THEN <<>>
    ELSE IF Strip(Head(ps)) = <<>> THEN StripParts(Tail(ps))
    ELSE <<PyStrV(Strip(Head(ps)))>> \o StripParts(Tail(ps))

\* _csv_list(val, cast)
_csv_list(val, cast) ==
    IF val.t = "none" \/ val = PyStrV(<<>>) THEN PyNone
    ELSE IF val.t = "list" THEN ListOrNone(CastAll(val.l, cast, <<>>))
    ELSE LET parts == StripParts(Split(PyStr(val)))
         IN  IF parts = <<>> THEN PyNone
             ELSE ListOrNone(CastAll(parts, cast, <<>>))

\* A datetime.date cell: year, month, day.
PyDate(y, m, d) == V("date", <<>>, 0, <<PyInt(y), PyInt(m), PyInt(d)>>)

\* A datetime.datetime / pandas.Timestamp cell: date and time of day.
PyDateTime(y, m, d, hh, mm, ss) ==
    V("datetime", <<>>, 0, <<PyInt(y), PyInt(m), PyInt(d), PyInt(hh), PyInt(mm), PyInt(ss)>>)

\* pandas.NaT, pandas.NA, float NaN and infinities, numpy.float32 infinity.
PyNaT == V("nat", <<>>, 0, <<>>)

PyNA == V("na", <<>>, 0, <<>>)

PyFloat(text) == V("float", text, 0, <<>>)

PyFloat32(text) == V("float32", text, 0, <<>>)

\* n in decimal, filled with zeros on the left to w digits.
PadTo(n, w) ==
    LET d == NatStr(n)
    IN  [i \in 1..(IF Len(d) >= w THEN 0 ELSE w - Len(d)) |-> "0"] \o d

DateText(l) ==
    PadTo(l[1].n, 4) \o <<"-">> \o PadTo(l[2].n, 2) \o <<"-">> \o PadTo(l[3].n, 2)

TimeText(l) ==
    PadTo(l[4].n, 2) \o <<":">> \o PadTo(l[5].n, 2) \o <<":">> \o PadTo(l[6].n, 2)

\* val.isoformat(): YYYY-MM-DD, with T and the time of day for a datetime;
\* NaT has the method too and answers "NaT".
IsoFormat(val) ==
    CASE val.t = "date"     -> DateText(val.l)
      [] val.t = "datetime" -> DateText(val.l) \o <<"T">> \o TimeText(val.l)
      [] OTHER              -> <<"NaT">>

\* hasattr(val, "isoformat")
HasIsoFormat(val) == val.t \in {"date", "datetime", "nat"}

\* pd.isna(val) of a scalar that reached the last branch.
PdIsNa(val) ==
    \/ val.t \in {"na", "nat", "none"}
    \/ val.t \in {"float", "float32"} /\ val.s = <<"nan">>

\* Mutant of SafeCell: dates written with str(val), which separates date and
\* time of day with a blank.
SafeCell_StrOfDate(val) ==
    IF val.t = "none" THEN PyNone
    ELSE IF val.t = "float" /\ val.s \in {<<"nan">>, <<"inf">>, <<"-inf">>} THEN PyNone
    ELSE IF val.t = "datetime"
         THEN PyStrV(DateText(val.l) \o <<Blank>> \o TimeText(val.l))
    ELSE IF HasIsoFormat(val) THEN PyStrV(IsoFormat(val))
    ELSE IF val.t \in {"list", "dict", "bool"} THEN val
    ELSE IF PdIsNa(val) THEN PyNone
    ELSE val

\* One cell of df_to_safe_records: the branches of lines 216-231 in order.
SafeCell(val) ==
    IF val.t = "none" THEN PyNone
    ELSE IF val.t = "float" /\ val.s \in {<<"nan">>, <<"inf">>, <<"-inf">>} THEN PyNone
    ELSE IF HasIsoFormat(val) THEN PyStrV(IsoFormat(val))
    ELSE IF val.t \in {"list", "dict", "bool"} THEN val
    ELSE IF PdIsNa(val) THEN PyNone
    ELSE val

\* The positions of a sequence that hold a value for the first time.
FirstPositions(q) ==
    SelectSeq([i \in 1..Len(q) |-> i], LAMBDA i : \A j \in 1..(i - 1) : q[j] # q[i])

\* The last position of q that holds x.
LastPosition(q, x) ==
    CHOOSE i \in 1..Len(q) : q[i] = x /\ \A j \in (i + 1)..Len(q) : q[j] # x

\* A row of a table as a record of the response, built as clean[key] = ... for
\* each column in turn: the keys in the order they were first set and, in
\* step, the value each was last set to.
RowRecord(cols, cells) ==
    LET first == FirstPositions(cols)
    IN  V("record", [k \in 1..Len(first) |-> cols[first[k]]], 0,
          [k \in 1..Len(first) |-> cells[LastPosition(cols, cols[first[k]])]])

\* Mutant of df_to_safe_records: the rows taken last to first.
df_to_safe_records_Reversed(df) ==
    [i \in 1..Len(df.rows) |->
        RowRecord(df.cols,
                  [j \in 1..Len(df.cols) |-> SafeCell(df.rows[Len(df.rows) + 1 - i][j])])]

\* df_to_safe_records(df)
df_to_safe_records(df) ==
    [i \in 1..Len(df.rows) |->
        RowRecord(df.cols, [j \in 1..Len(df.cols) |-> SafeCell(df.rows[i][j])])]

\* df.empty: an axis of length 0.
DfEmpty(df) == Len(df.cols) = 0 \/ Len(df.rows) = 0

\* --------------------------------------------------------------- request

\* The parameters _jobs_handler reads.
ParamKeys ==
    {"site_name", "search_term", "google_search_term", "location", "distance",
     "job_type", "is_remote", "results_wanted", "hours_old", "easy_apply",
     "description_format", "offset", "linkedin_fetch_description",
     "linkedin_company_ids", "country_indeed", "enforce_annual_salary",
     "proxies", "user_agent", "ca_cert"}

\* The keyword arguments of scrape_jobs the handler may pass.
KwKeys == ParamKeys \cup {"verbose"}

\* The keys a request may carry: those the handler reads and output_format,
\* which no line of the handler reads.
RequestKeys == ParamKeys \cup {"output_format"}

EmptyDict == [k \in RequestKeys |-> Missing]

EmptyKw == [k \in KwKeys |-> Missing]

\* dict.get(k)
Get(d, k) == IF d[k] = Missing THEN PyNone ELSE d[k]

Size(d) == Cardinality({k \in DOMAIN d : d[k] # Missing})

\* Values a client puts in the query string: always text.
QueryValues(k) ==
    CASE k = "site_name" ->
            {PyStrV(<<>>), PyStrV(<<"indeed">>),
             PyStrV(<<"indeed", ",", "glassdoor">>),
             PyStrV(<<"fakeboard">>),
             PyStrV(<<"indeed", ",", Blank, "fakeboard">>),
             PyStrV(<<",", Blank>>)}
      [] k = "job_type" -> {PyStrV(<<>>), PyStrV(<<"fulltime">>), PyStrV(<<"gig">>)}
      [] k = "description_format" -> {PyStrV(<<"html">>), PyStrV(<<"pdf">>)}
      [] k = "distance" -> {PyStrV(<<"2", "5">>), PyStrV(<<"abc">>)}
      [] k = "results_wanted" -> {PyStrV(<<"1", "0">>)}
      [] k = "search_term" -> {PyStrV(<<"qa">>)}
      [] k = "output_format" -> {PyStrV(<<"csv">>), PyStrV(<<"excel">>)}
      [] k = "easy_apply" -> {PyStrV(<<"true">>)}
      [] k = "offset" -> {PyStrV(<<"5">>), PyStrV(<<>>)}
      [] OTHER -> {}

\* Values a client puts in the JSON body: any JSON type.
BodyValues(k) ==
    CASE k = "site_name" ->
            {PyNone, PyList(<<>>), PyList(<<PyStrV(<<"indeed">>)>>),
             PyList(<<PyStrV(<<"zip_recruiter">>), PyStrV(<<"indeed">>), PyStrV(<<"indeed">>)>>),
             PyList(<<PyStrV(<<"fakeboard">>), PyStrV(<<"indeed">>), PyStrV(<<"o", "'", "\"", "neil">>)>>),
             PyStrV(<<"glassdoor">>), PyInt(5)}
      [] k = "job_type" ->
            {PyNone, PyStrV(<<"contract">>), PyStrV(<<"gig">>), PyInt(7),
             PyList(<<PyStrV(<<"gig">>)>>), PyDict(1), PyDict(0)}
      [] k = "description_format" ->
            {PyStrV(<<"markdown">>), PyStrV(<<"pdf">>), PyList(<<PyStrV(<<"pdf">>)>>)}
      [] k = "distance" -> {PyInt(25), PyInf}
      [] k = "results_wanted" -> {PyInt(2)}
      [] k = "search_term" -> {PyStrV(<<"dev">>)}
      [] k = "is_remote" -> {PyBool(FALSE)}
      [] OTHER -> {}

\* What the library call may do: raise, return None, or return a table.
\* one_source: the exception is the failure of the scraper of one requested
\* source, raised out of the call although another requested source had been
\* fetched (a failure the library keeps to itself shows in no return value).
Exceptions ==
    {[type |-> "ValueError", msg |-> <<"Invalid country">>, one_source |-> FALSE],
     [type |-> "ConnectionError", msg |-> <<"timed out">>, one_source |-> FALSE],
     [type |-> "ConnectionError", msg |-> <<"timed out">>, one_source |-> TRUE]}

MaxRows == 2

TableCols == <<"title", "date_posted">>

RowChoices ==
    {<<PyStrV(<<"Engineer">>), PyDate(2025, 1, 15)>>,
     <<PyStrV(<<"Nurse">>), PyFloat(<<"nan">>)>>}

RECURSIVE RowSeqs(_)
RowSeqs(n) ==
    IF n = 0 THEN {<<>>}
    ELSE RowSeqs(n - 1) \cup
         {Append(rs, r) : rs \in {x \in RowSeqs(n - 1) : Len(x) = n - 1}, r \in RowChoices}

\* The tables of TableCols, a table of one row and no column, and a table
\* whose two columns have the same name.
Tables ==
    {[cols |-> TableCols, rows |-> rs] : rs \in RowSeqs(MaxRows)}
    \cup {[cols |-> <<>>, rows |-> <<<<>>>>]}
    \cup {[cols |-> <<"title", "title">>,
           rows |-> <<<<PyStrV(<<"Engineer">>), PyStrV(<<"Nurse">>)>>>>]}

NoDf == [cols |-> <<>>, rows |-> <<>>]

NoExc == [type |-> "", msg |-> <<>>, one_source |-> FALSE]

\* Before the call: nothing returned yet.
NoRet == [kind |-> "pending", exc |-> NoExc, df |-> NoDf]

Outcomes ==
    {[kind |-> "raise", exc |-> e, df |-> NoDf] : e \in Exceptions}
    \cup {[kind |-> "none", exc |-> NoExc, df |-> NoDf]}
    \cup {[kind |-> "df", exc |-> NoExc, df |-> t] : t \in Tables}

\* ------------------------------------------- the helpers on their own
\* The values the helpers are applied to when a caller uses them directly.

\* A float with a fraction: its text and the integer int() truncates it to.
PyFloatOf(text, n) == V("float", text, n, <<>>)

BoolInputs ==
    {PyNone, PyBool(TRUE), PyBool(FALSE), PyInt(-1), PyInt(0), PyInt(1), PyInt(2),
     PyStrV(<<"1">>), PyStrV(<<"true">>), PyStrV(<<"TRUE">>), PyStrV(<<"True">>),
     PyStrV(<<"tRuE">>), PyStrV(<<"yes">>), PyStrV(<<"Yes">>), PyStrV(<<"YES">>),
     PyStrV(<<"yEs">>), PyStrV(<<"0">>), PyStrV(<<"false">>), PyStrV(<<"no">>),
     PyStrV(<<>>), PyStrV(<<"on">>), PyStrV(<<Blank, "true">>), PyStrV(<<"2">>),
     PyStrV(<<"1", "1">>), PyFloatOf(<<"1", ".", "0">>, 1), PyList(<<PyStrV(<<"1">>)>>),
     PyList(<<>>), PyDict(0)}

IntInputs ==
    {PyNone, PyStrV(<<>>), PyStrV(<<"2", "5">>), PyStrV(<<"-", "7">>),
     PyStrV(<<"+", "3">>), PyStrV(<<Blank, "1", "2", Blank>>), PyStrV(<<"abc">>),
     PyStrV(<<"1", ".", "5">>), PyStrV(<<"1", "e", "3">>), PyStrV(<<Blank>>),
     PyInt(0), PyInt(-4), PyBool(TRUE), PyFloatOf(<<"2", ".", "7">>, 2),
     PyInf, PyFloat(<<"-inf">>), PyFloat(<<"nan">>), PyList(<<PyInt(1)>>), PyDict(1)}

IntDefaults == {PyNone, PyInt(50)}

\* Most elements of a list handed to _csv_list.
MaxElems == 2

ElemChoices ==
    {PyStrV(<<"indeed">>), PyStrV(<<"x">>), PyInt(3), PyStrV(<<"4">>), PyInf,
     PyNone, PyStrV(<<Blank>>)}

RECURSIVE ElemSeqs(_)
ElemSeqs(n) ==
    IF n = 0 THEN {<<>>}
    ELSE ElemSeqs(n - 1) \cup
         {Append(q, e) : q \in {x \in ElemSeqs(n - 1) : Len(x) = n - 1}, e \in ElemChoices}

CsvInputs ==
    {PyNone, PyStrV(<<>>), PyStrV(<<"a", ",", "b">>),
     PyStrV(<<Blank, "a", Blank, ",", Blank, ",", "b">>), PyStrV(<<",">>),
     PyStrV(<<"1", ",", "x", ",", "2">>), PyStrV(<<"7">>), PyInt(5)}
    \cup {PyList(q) : q \in ElemSeqs(MaxElems)}

CellChoices ==
    {PyNone, PyFloat(<<"nan">>), PyInf, PyFloat(<<"-inf">>),
     PyFloatOf(<<"1", ".", "5">>, 1), PyFloat32(<<"inf">>), PyFloat32(<<"nan">>),
     PyNaT, PyNA, PyDate(2025, 1, 15), PyDateTime(2024, 12, 3, 9, 5, 0),
     PyStrV(<<"x">>), PyInt(3), PyBool(TRUE), PyList(<<>>)}

CellRows == {<<c1, c2>> : c1 \in {PyStrV(<<"Engineer">>), PyFloat(<<"nan">>)}, c2 \in CellChoices}

RECURSIVE CellRowSeqs(_)
CellRowSeqs(n) ==
    IF n = 0 THEN {<<>>}
    ELSE CellRowSeqs(n - 1) \cup
         {Append(rs, r) : rs \in {x \in CellRowSeqs(n - 1) : Len(x) = n - 1}, r \in CellRows}

CellTables == {[cols |-> TableCols, rows |-> rs] : rs \in CellRowSeqs(MaxRows)}

\* No helper applied.
NoHelper ==
    [fn |-> "", val |-> PyNone, cast |-> "", default |-> PyNone, df |-> NoDf,
     out |-> PyNone, records |-> <<>>, done |-> FALSE]

HelperCalls ==
    {[NoHelper EXCEPT !.fn = "_bool", !.val = v] : v \in BoolInputs}
    \cup {[NoHelper EXCEPT !.fn = "_int", !.val = v, !.default = d] :
              v \in IntInputs, d \in IntDefaults}
    \cup {[NoHelper EXCEPT !.fn = "_csv_list", !.val = v, !.cast = c] :
              v \in CsvInputs, c \in {"str", "int"}}
    \cup {[NoHelper EXCEPT !.fn = "df_to_safe_records", !.df = t] : t \in CellTables}

\* ----------------------------------------------------------------- state

VARIABLES
    pc,        \* where the request is: client, parse, validate, scrape, serialise, done
    request,   \* [args, is_json, body_kind, body]: what the client sent
    params,    \* the merged dict of _jobs_handler
    p,         \* the handler's parsed locals
    calls,     \* the kwargs of every scrape_jobs call made, in order
    ret,       \* what scrape_jobs did: raised exc, returned None, returned table df
    resp,      \* the response
    round,     \* 1 for the request, 2 when the client has sent it once more
    prev,      \* the response to the first of two identical requests
    h,         \* a helper applied on its own: [fn, val, cast, default, df, out]
    inflight   \* requests handled at the same time: for each its own handler
               \* call [pc, request, params, p, ret, resp]

vars == <<pc, request, params, p, calls, ret, resp, round, prev, h, inflight>>

NoLocals ==
    [site_name |-> PyNone, search_term |-> PyNone, google_search_term |-> PyNone,
     location |-> PyNone, distance |-> PyNone, job_type |-> PyNone,
     is_remote |-> PyNone, results_wanted |-> PyNone, hours_old |-> PyNone,
     easy_apply |-> PyNone, description_format |-> PyNone, offset |-> PyNone,
     linkedin_fetch_description |-> PyNone, linkedin_company_ids |-> PyNone,
     country_indeed |-> PyNone, enforce_annual_salary |-> PyNone,
     proxies |-> PyNone, user_agent |-> PyNone, ca_cert |-> PyNone]

\* Most requests handled at the same time.
MaxClients == 2

Clients == 1..MaxClients

NoResp ==
    [status |-> 0, kind |-> "none", exc |-> "", keys |-> {}, jobs |-> <<>>,
     count |-> 0, sites |-> PyNone, query |-> EmptyKw, error |-> <<>>,
     error_type |-> <<>>, parameters |-> EmptyKw]

\* A handler call that has not begun.
Idle ==
    [pc |-> "client",
     request |-> [args |-> EmptyDict, is_json |-> FALSE, body_kind |-> "object",
                  body |-> EmptyDict],
     params |-> EmptyDict, p |-> NoLocals, ret |-> NoRet, resp |-> NoResp]

\* An exception nothing in the handler catches: the framework answers 500
\* with no JSON body of the handler's.
Unhandled(exc) == [NoResp EXCEPT !.status = 500, !.kind = "crash", !.exc = exc]

Init ==
    /\ pc = "client"
    /\ request = [args |-> EmptyDict, is_json |-> FALSE, body_kind |-> "object",
                  body |-> EmptyDict]
    /\ params = EmptyDict
    /\ p = NoLocals
    /\ calls = <<>>
    /\ ret = NoRet
    /\ resp = NoResp
    /\ round = 1
    /\ prev = NoResp
    /\ h = NoHelper
    /\ inflight = [c \in {} |-> Idle]

\* ---------------------------------------------------------------- client

\* The client adds one query-string parameter to the request it assembles.
SetArg ==
    /\ pc = "client"
    /\ Size(request.args) + Size(request.body) < MaxParams
    /\ \E k \in RequestKeys : \E v \in QueryValues(k) :
        /\ request.args[k] = Missing
        /\ request' = [request EXCEPT !.args[k] = v]
    /\ UNCHANGED <<pc, params, p, calls, ret, resp, round, prev, h, inflight>>

\* The client adds one member to the JSON object it will send as the body.
SetBody ==
    /\ pc = "client"
    /\ Size(request.args) + Size(request.body) < MaxParams
    /\ \E k \in RequestKeys : \E v \in BodyValues(k) :
        /\ request.body[k] = Missing
        /\ request' = [request EXCEPT !.body[k] = v]
    /\ UNCHANGED <<pc, params, p, calls, ret, resp, round, prev, h, inflight>>

\* --------------------------------------------------------------- handler

\* request.get_json(silent=True): the object sent, or a value that is no dict
\* (an array here), for which body is not a dict.
BodyIsDict(r) == r.body_kind = "object"

\* Mutant of Merged: the update order reversed, so the query string wins.
Merged_QueryWins(r) ==
    [k \in RequestKeys |->
        IF r.args[k] # Missing THEN r.args[k]
        ELSE IF r.is_json /\ BodyIsDict(r) /\ Size(r.body) > 0 THEN r.body[k]
        ELSE Missing]

\* params = {}; params.update(args); if is_json: body = get_json();
\* if body and isinstance(body, dict): params.update(body)
Merged(r) ==
    [k \in RequestKeys |->
        IF r.is_json /\ BodyIsDict(r) /\ Size(r.body) > 0 /\ r.body[k] # Missing
        THEN r.body[k]
        ELSE r.args[k]]

\* The request arrives (with or without a JSON content type, its body a JSON
\* object or an array) and the handler merges query string and body.
Merge ==
    /\ pc = "client"
    /\ \E j \in BOOLEAN : \E kind \in {"object", "array"} :
        /\ kind = "array" => Size(request.body) = 0
        /\ request' = [request EXCEPT !.is_json = j, !.body_kind = kind]
        /\ params' = Merged(request')
    /\ pc' = "parse"
    /\ UNCHANGED <<p, calls, ret, resp, round, prev, h, inflight>>

\* Mutant of ALL_SITES: the default list lacks a source of the known set.
ALL_SITES_MissingNaukri ==
    <<"linkedin", "indeed", "zip_recruiter", "glassdoor", "google", "bayt", "bdjobs">>

ALL_SITES ==
    <<"linkedin", "indeed", "zip_recruiter", "glassdoor", "google", "bayt",
      "bdjobs", "naukri">>

SiteList(names) == PyList([i \in 1..Len(names) |-> PyStrV(<<names[i]>>)])

\* _bool(params.get(k)) if params.get(k) is not None else None
TriBool(d, k) == IF Get(d, k).t # "none" THEN _bool(Get(d, k)) ELSE PyNone

\* "Parse every supported parameter": the handler's locals.
Locals(d) ==
    [site_name |->
        LET l == _csv_list(Get(d, "site_name"), "str")
        IN  IF IsRaised(l) THEN l ELSE IF ~Truthy(l) THEN SiteList(ALL_SITES) ELSE l,
     search_term |-> OrNone(Get(d, "search_term")),
     google_search_term |-> OrNone(Get(d, "google_search_term")),
     location |-> OrNone(Get(d, "location")),
     distance |-> _int(Get(d, "distance"), PyInt(50)),
     job_type |-> OrNone(Get(d, "job_type")),
     is_remote |-> TriBool(d, "is_remote"),
     results_wanted |-> _int(Get(d, "results_wanted"), PyInt(15)),
     hours_old |-> _int(Get(d, "hours_old"), PyNone),
     easy_apply |-> TriBool(d, "easy_apply"),
     description_format |-> OrDefault(Get(d, "description_format"), PyStrV(<<"markdown">>)),
     offset |-> _int(Get(d, "offset"), PyInt(0)),
     linkedin_fetch_description |->
        OrDefault(_bool(Get(d, "linkedin_fetch_description")), PyBool(FALSE)),
     linkedin_company_ids |-> _csv_list(Get(d, "linkedin_company_ids"), "int"),
     country_indeed |-> OrNone(Get(d, "country_indeed")),
     enforce_annual_salary |->
        OrDefault(_bool(Get(d, "enforce_annual_salary")), PyBool(FALSE)),
     proxies |-> _csv_list(Get(d, "proxies"), "str"),
     user_agent |-> OrNone(Get(d, "user_agent")),
     ca_cert |-> OrNone(Get(d, "ca_cert"))]

\* The exception, if any, that a helper let escape while the locals were parsed.
ParseFailure(l) == {l[k].s[1] : k \in {x \in DOMAIN l : IsRaised(l[x])}}

\* Lines 632-657: parse the parameters; an exception no helper catches ends
\* the handler.
Parse ==
    /\ pc = "parse"
    /\ LET l == Locals(params)
       IN  IF ParseFailure(l) # {}
           THEN /\ resp' = Unhandled(CHOOSE e \in ParseFailure(l) : TRUE)
                /\ pc' = "done"
                /\ p' = p
           ELSE /\ p' = l
                /\ pc' = "validate"
                /\ resp' = resp
    /\ UNCHANGED <<request, params, calls, ret, round, prev, h, inflight>>

valid_sites ==
    {"linkedin", "indeed", "zip_recruiter", "glassdoor", "google", "bayt",
     "bdjobs", "naukri"}

\* sorted(valid_sites)
SortedValidSites ==
    <<"bayt", "bdjobs", "glassdoor", "google", "indeed", "linkedin", "naukri",
      "zip_recruiter">>

valid_job_types == {<<"fulltime">>, <<"parttime">>, <<"internship">>, <<"contract">>}

valid_formats == {<<"markdown">>, <<"html">>}

\* [s for s in site_name if s not in valid_sites]
Invalid(site_name) ==
    SelectSeq(site_name.l, LAMBDA x : ~(Len(x.s) = 1 /\ x.s[1] \in valid_sites))

\* v in {None, <texts>}: None or one of the texts; v is hashable.
InOptional(v, texts) == v.t = "none" \/ (v.t = "str" /\ v.s \in texts)

UnknownSitesError(invalid) ==
    <<"Unknown site(s): ">> \o PyStr(PyList(invalid)) \o <<". Valid options: ">>
    \o PyStr(SiteList(SortedValidSites))

JobTypeError(job_type) ==
    <<"Invalid job_type ", "'">> \o PyStr(job_type)
    \o <<"'", ". Valid options: fulltime, parttime, internship, contract">>

FormatError(description_format) ==
    <<"Invalid description_format ", "'">> \o PyStr(description_format)
    \o <<"'", ". Valid options: markdown, html">>

\* Mutant of BadRequest: the 400 built like the 500, with all error fields.
BadRequest_WithAllErrorFields(msg) ==
    [NoResp EXCEPT !.status = 400, !.kind = "json",
                   !.keys = {"error", "error_type", "parameters"}, !.error = msg,
                   !.error_type = <<"ValidationError">>]

\* jsonify({"error": msg}), 400
BadRequest(msg) ==
    [NoResp EXCEPT !.status = 400, !.kind = "json", !.keys = {"error"}, !.error = msg]

\* Mutant of Validation: the description_format check left out.
Validation_SkipsFormat(l) ==
    IF Invalid(l.site_name) # <<>> THEN BadRequest(UnknownSitesError(Invalid(l.site_name)))
    ELSE IF ~Hashable(l.job_type) THEN Unhandled("TypeError")
    ELSE IF ~InOptional(l.job_type, valid_job_types) THEN BadRequest(JobTypeError(l.job_type))
    ELSE NoResp

\* Lines 659-677: the three checks in order; the answer that ends the handler,
\* or NoResp when all three pass.
Validation(l) ==
    IF Invalid(l.site_name) # <<>> THEN BadRequest(UnknownSitesError(Invalid(l.site_name)))
    ELSE IF ~Hashable(l.job_type) THEN Unhandled("TypeError")
    ELSE IF ~InOptional(l.job_type, valid_job_types) THEN BadRequest(JobTypeError(l.job_type))
    ELSE IF ~Hashable(l.description_format) THEN Unhandled("TypeError")
    ELSE IF ~InOptional(l.description_format, valid_formats)
         THEN BadRequest(FormatError(l.description_format))
    ELSE NoResp

Validate ==
    /\ pc = "validate"
    /\ resp' = Validation(p)
    /\ pc' = IF resp' = NoResp THEN "scrape" ELSE "done"
    /\ UNCHANGED <<request, params, p, calls, ret, round, prev, h, inflight>>

\* Mutant of Kwargs: is_remote, hours_old and easy_apply forwarded when
\* truthy ("if is_remote:"), so that an explicit false is dropped.
Kwargs_FalseDropped(l) ==
    [k \in KwKeys |->
        CASE k \in {"site_name", "results_wanted", "distance", "description_format",
                    "offset", "linkedin_fetch_description", "enforce_annual_salary"}
                -> l[k]
          [] k = "verbose" -> PyInt(0)
          [] OTHER -> IF Truthy(l[k]) THEN l[k] ELSE Missing]

\* Mutant of Kwargs: the call is made for the first requested source alone.
Kwargs_FirstSourceOnly(l) ==
    [k \in KwKeys |->
        CASE k = "site_name" -> PyList(<<l[k].l[1]>>)
          [] k \in {"results_wanted", "distance", "description_format",
                    "offset", "linkedin_fetch_description", "enforce_annual_salary"}
                -> l[k]
          [] k = "verbose" -> PyInt(0)
          [] k \in {"is_remote", "hours_old", "easy_apply"}
                -> IF l[k].t # "none" THEN l[k] ELSE Missing
          [] OTHER -> IF Truthy(l[k]) THEN l[k] ELSE Missing]

\* Lines 679-702: the always-present arguments and the optional ones that are
\* forwarded only when set.
Kwargs(l) ==
    [k \in KwKeys |->
        CASE k \in {"site_name", "results_wanted", "distance", "description_format",
                    "offset", "linkedin_fetch_description", "enforce_annual_salary"}
                -> l[k]
          [] k = "verbose" -> PyInt(0)
          [] k \in {"is_remote", "hours_old", "easy_apply"}
                -> IF l[k].t # "none" THEN l[k] ELSE Missing
          [] OTHER -> IF Truthy(l[k]) THEN l[k] ELSE Missing]

\* Mutant of Echo: only the always-present arguments are echoed.
Echo_RequiredOnly(kw) ==
    [k \in KwKeys |->
        IF k \in {"site_name", "results_wanted", "distance", "description_format",
                  "offset", "linkedin_fetch_description", "enforce_annual_salary"}
        THEN kw[k] ELSE Missing]

\* {k: v for k, v in kwargs.items() if k != "verbose"}
Echo(kw) == [k \in KwKeys |-> IF k = "verbose" THEN Missing ELSE kw[k]]

\* jsonify({"jobs", "count", "sites", "query"})
Envelope(records, n, site_name, kw) ==
    [NoResp EXCEPT !.status = 200, !.kind = "json",
                   !.keys = {"jobs", "count", "sites", "query"},
                   !.jobs = records, !.count = n, !.sites = site_name,
                   !.query = Echo(kw)]

\* Mutant of ScrapeFailed: the failure swallowed and an empty result returned.
ScrapeFailed_Swallowed(exc, kw) == Envelope(<<>>, 0, kw["site_name"], kw)

\* The except branch of the call: jsonify({error, error_type, parameters}), 500
ScrapeFailed(exc, kw) ==
    [NoResp EXCEPT !.status = 500, !.kind = "json",
                   !.keys = {"error", "error_type", "parameters"},
                   !.error = exc.msg, !.error_type = <<exc.type>>,
                   !.parameters = Echo(kw)]

\* Lines 679-712: build kwargs and call scrape_jobs(**kwargs); the library
\* returns a table, returns None, or raises.
Scrape ==
    /\ pc = "scrape"
    /\ calls' = Append(calls, Kwargs(p))
    /\ \E o \in Outcomes :
        /\ o.exc.one_source => Cardinality(Range(p.site_name.l)) >= 2
        /\ round = 2 => o = ret
        /\ ret' = o
        /\ IF o.kind = "raise"
           THEN /\ resp' = ScrapeFailed(o.exc, Kwargs(p))
                /\ pc' = "done"
           ELSE /\ resp' = resp
                /\ pc' = "serialise"
    /\ UNCHANGED <<request, params, p, round, prev, h, inflight>>

\* Mutant of Serialised: count taken from the table's rows, not from the records.
Serialised_CountsRows(r, l) ==
    IF r.kind = "none" \/ DfEmpty(r.df)
    THEN Envelope(<<>>, Len(r.df.rows), l.site_name, Kwargs(l))
    ELSE Envelope(df_to_safe_records(r.df), Len(r.df.rows), l.site_name, Kwargs(l))

RECURSIVE Dedup(_, _)
Dedup(q, seen) ==
    IF q = <<>> THEN <<>>
    ELSE IF Head(q) \in seen THEN Dedup(Tail(q), seen)
    ELSE <<Head(q)>> \o Dedup(Tail(q), seen \cup {Head(q)})

\* Mutant of Serialised: sites de-duplicated before it is returned.
Serialised_SitesDeduplicated(r, l) ==
    LET sites == PyList(Dedup(l.site_name.l, {}))
    IN  IF r.kind = "none" \/ DfEmpty(r.df)
        THEN Envelope(<<>>, 0, sites, Kwargs(l))
        ELSE Envelope(df_to_safe_records(r.df), Len(df_to_safe_records(r.df)), sites, Kwargs(l))

\* Mutant of Serialised: the records list outlives the request and keeps
\* the records of the request before.
Serialised_Accumulating(r, l) ==
    IF r.kind = "none" \/ DfEmpty(r.df)
    THEN Envelope(<<>>, 0, l.site_name, Kwargs(l))
    ELSE LET records == prev.jobs \o df_to_safe_records(r.df)
         IN  Envelope(records, Len(records), l.site_name, Kwargs(l))

\* Lines 714-730: the empty answer when df is None or empty, otherwise the
\* records of df_to_safe_records and their number.
Serialised(r, l) ==
    IF r.kind = "none" \/ DfEmpty(r.df)
    THEN Envelope(<<>>, 0, l.site_name, Kwargs(l))
    ELSE LET records == df_to_safe_records(r.df)
         IN  Envelope(records, Len(records), l.site_name, Kwargs(l))

Serialise ==
    /\ pc = "serialise"
    /\ resp' = Serialised(ret, p)
    /\ pc' = "done"
    /\ UNCHANGED <<request, params, p, calls, ret, round, prev, h, inflight>>

Next == SetArg \/ SetBody \/ Merge \/ Parse \/ Validate \/ Scrape \/ Serialise

Spec == Init /\ [][Next]_vars

\* ------------------------------------------------ the same request again

\* The client, answered, sends the identical request once more; the upstream
\* sources have not changed, so the library call will do what it did.  The
\* handler starts afresh: its locals are new, the process is the same.
Repeat ==
    /\ pc = "done"
    /\ round = 1
    /\ round' = 2
    /\ prev' = resp
    /\ resp' = NoResp
    /\ params' = Merged(request)
    /\ p' = NoLocals
    /\ pc' = "parse"
    /\ UNCHANGED <<request, calls, ret, h, inflight>>

TwiceNext == Next \/ Repeat

Twice == Init /\ [][TwiceNext]_vars

\* ------------------------------------------- requests at the same time

\* The requests the clients send at the same time: two that are valid and
\* differ, one that validation rejects, one whose parsing raises.
ConcurrentRequests ==
    {[Idle.request EXCEPT !.args["site_name"] = PyStrV(<<"indeed">>),
                          !.args["search_term"] = PyStrV(<<"qa">>)],
     [Idle.request EXCEPT !.is_json = TRUE,
                          !.body["site_name"] = PyStrV(<<"glassdoor">>),
                          !.body["is_remote"] = PyBool(FALSE)],
     [Idle.request EXCEPT !.args["job_type"] = PyStrV(<<"gig">>)],
     [Idle.request EXCEPT !.is_json = TRUE, !.body["distance"] = PyInf]}

\* What the library call of one of them may do.
ConcurrentOutcomes ==
    {[kind |-> "raise",
      exc |-> [type |-> "ConnectionError", msg |-> <<"timed out">>,
               one_source |-> FALSE],
      df |-> NoDf],
     [kind |-> "df", exc |-> NoExc,
      df |-> [cols |-> TableCols,
              rows |-> <<<<PyStrV(<<"Engineer">>), PyDate(2025, 1, 15)>>>>]],
     [kind |-> "df", exc |-> NoExc,
      df |-> [cols |-> TableCols,
              rows |-> <<<<PyStrV(<<"Nurse">>), PyFloat(<<"nan">>)>>,
                         <<PyStrV(<<"Engineer">>), PyDate(2025, 1, 15)>>>>]]}

\* Mutant of StartParams: params a module-level dict, so that a call starts
\* from what the earliest call still in the process has merged into it.
StartParams_ModuleLevel(fl, c) ==
    LET started == {d \in Clients \ {c} : fl[d].pc # "client"}
    IN  IF started = {} THEN EmptyDict
        ELSE fl[CHOOSE d \in started : \A e \in started : d <= e].params

\* Line 623, params: dict = {}: a new dict in every call, whatever the calls
\* fl of the other requests hold.
StartParams(fl, c) == EmptyDict

\* Lines 623-628: the updates of Merged applied to the dict d0.
MergedOnto(d0, r) ==
    [k \in RequestKeys |-> IF Merged(r)[k] # Missing THEN Merged(r)[k] ELSE d0[k]]

\* Request r of client c arrives and its handler call merges it.
Arrive(c) ==
    /\ inflight[c].pc = "client"
    /\ \E r \in ConcurrentRequests :
        inflight' = [inflight EXCEPT ![c] =
            [@ EXCEPT !.request = r,
                      !.params = MergedOnto(StartParams(inflight, c), r),
                      !.pc = "parse"]]
    /\ UNCHANGED <<pc, request, params, p, calls, ret, resp, round, prev, h>>

\* Lines 632-657 in the call of client c.
ParseOf(c) ==
    /\ inflight[c].pc = "parse"
    /\ LET l == Locals(inflight[c].params)
       IN  inflight' = [inflight EXCEPT ![c] =
               IF ParseFailure(l) # {}
               THEN [@ EXCEPT !.resp = Unhandled(CHOOSE e \in ParseFailure(l) : TRUE),
                              !.pc = "done"]
               ELSE [@ EXCEPT !.p = l, !.pc = "validate"]]
    /\ UNCHANGED <<pc, request, params, p, calls, ret, resp, round, prev, h>>

\* Lines 659-677 in the call of client c.
ValidateOf(c) ==
    /\ inflight[c].pc = "validate"
    /\ LET v == Validation(inflight[c].p)
       IN  inflight' = [inflight EXCEPT ![c] =
               [@ EXCEPT !.resp = v,
                         !.pc = IF v = NoResp THEN "scrape" ELSE "done"]]
    /\ UNCHANGED <<pc, request, params, p, calls, ret, resp, round, prev, h>>

\* Lines 679-712 in the call of client c.
ScrapeOf(c) ==
    /\ inflight[c].pc = "scrape"
    /\ \E o \in ConcurrentOutcomes :
        inflight' = [inflight EXCEPT ![c] =
            IF o.kind = "raise"
            THEN [@ EXCEPT !.ret = o, !.resp = ScrapeFailed(o.exc, Kwargs(inflight[c].p)),
                           !.pc = "done"]
            ELSE [@ EXCEPT !.ret = o, !.pc = "serialise"]]
    /\ UNCHANGED <<pc, request, params, p, calls, ret, resp, round, prev, h>>

\* Lines 714-730 in the call of client c.
SerialiseOf(c) ==
    /\ inflight[c].pc = "serialise"
    /\ inflight' = [inflight EXCEPT ![c] =
           [@ EXCEPT !.resp = Serialised(inflight[c].ret, inflight[c].p), !.pc = "done"]]
    /\ UNCHANGED <<pc, request, params, p, calls, ret, resp, round, prev, h>>

\* No handler call has begun; the single client of Spec sends nothing.
ConcurrentInit ==
    /\ pc = "client"
    /\ request = Idle.request
    /\ params = EmptyDict
    /\ p = NoLocals
    /\ calls = <<>>
    /\ ret = NoRet
    /\ resp = NoResp
    /\ round = 1
    /\ prev = NoResp
    /\ h = NoHelper
    /\ inflight = [c \in Clients |-> Idle]

ConcurrentNext ==
    \E c \in Clients :
        Arrive(c) \/ ParseOf(c) \/ ValidateOf(c) \/ ScrapeOf(c) \/ SerialiseOf(c)

Concurrent == ConcurrentInit /\ [][ConcurrentNext]_vars

\* --------------------------------------------- the helpers, one call each

HelperInit ==
    /\ pc = "client"
    /\ request = [args |-> EmptyDict, is_json |-> FALSE, body_kind |-> "object",
                  body |-> EmptyDict]
    /\ params = EmptyDict
    /\ p = NoLocals
    /\ calls = <<>>
    /\ ret = NoRet
    /\ resp = NoResp
    /\ round = 1
    /\ prev = NoResp
    /\ h \in HelperCalls
    /\ inflight = [c \in {} |-> Idle]

Call_bool ==
    /\ h.fn = "_bool" /\ ~h.done
    /\ h' = [h EXCEPT !.out = _bool(h.val), !.done = TRUE]
    /\ UNCHANGED <<pc, request, params, p, calls, ret, resp, round, prev, inflight>>

Call_int ==
    /\ h.fn = "_int" /\ ~h.done
    /\ h' = [h EXCEPT !.out = _int(h.val, h.default), !.done = TRUE]
    /\ UNCHANGED <<pc, request, params, p, calls, ret, resp, round, prev, inflight>>

Call_csv_list ==
    /\ h.fn = "_csv_list" /\ ~h.done
    /\ h' = [h EXCEPT !.out = _csv_list(h.val, h.cast), !.done = TRUE]
    /\ UNCHANGED <<pc, request, params, p, calls, ret, resp, round, prev, inflight>>

Call_df_to_safe_records ==
    /\ h.fn = "df_to_safe_records" /\ ~h.done
    /\ h' = [h EXCEPT !.records = df_to_safe_records(h.df), !.done = TRUE]
    /\ UNCHANGED <<pc, request, params, p, calls, ret, resp, round, prev, inflight>>

HelperNext == Call_bool \/ Call_int \/ Call_csv_list \/ Call_df_to_safe_records

HelperSpec == HelperInit /\ [][HelperNext]_vars

\* ------------------------------------------------- the claims' vocabulary

\* The value of parameter k that reaches the handler: the body's when the JSON
\* object body holds k, otherwise the query string's.
Effective(k) ==
    IF request.is_json /\ request.body_kind = "object" /\ request.body[k] # Missing
    THEN request.body[k]
    ELSE Get(request.args, k)

\* The sources the request names, as a list value, or None when it names none.
RequestedSites == _csv_list(Effective("site_name"), "str")

KnownName(x) == x.t = "str" /\ \E n \in valid_sites : x.s = <<n>>

Elems(v) == {v.l[i] : i \in 1..Len(v.l)}

\* The names of the request that are outside the known source set.
UnknownNames == {x \in Elems(RequestedSites) : ~KnownName(x)}

\* v is present (non-empty) and is not one of the enumerated texts.
BadEnum(v, texts) == Truthy(v) /\ ~(v.t = "str" /\ v.s \in texts)

SiteRuleBroken == UnknownNames # {}

JobTypeRuleBroken == BadEnum(Effective("job_type"), valid_job_types)

FormatRuleBroken == BadEnum(Effective("description_format"), valid_formats)

\* v is the full known source set, each source once.
FullSourceList(v) ==
    /\ v.t = "list"
    /\ Len(v.l) = Cardinality(valid_sites)
    /\ {x.s : x \in Elems(v)} = {<<n>> : n \in valid_sites}

\* ------------------------------------------------------------------- C1

\* C1: whenever the request passed validation and the library call returned
\* (a table, an empty table or None), the response is the success envelope
\* and its count equals the number of elements of its jobs list.
C1_CountEqualsJobs ==
    (pc = "done" /\ ret.kind \in {"none", "df"}) =>
        /\ resp.status = 200
        /\ {"jobs", "count"} \subseteq resp.keys
        /\ resp.count = Len(resp.jobs)

C1_Witness ==
    /\ pc = "done"
    /\ ret.kind = "df"
    /\ resp.status = 200
    /\ Len(resp.jobs) = 2
    /\ resp.count = 2

\* ------------------------------------------------------------------- C2

\* C2: every request that names at least one source outside the known set is
\* answered 400 with an error message that contains each unknown name and
\* every valid source name.
C2_UnknownSiteRejected ==
    (pc = "done" /\ UnknownNames # {}) =>
        /\ resp.status = 400
        /\ "error" \in resp.keys
        /\ \A x \in UnknownNames : Contains(resp.error, x.s)
        /\ \A n \in valid_sites : Contains(resp.error, <<n>>)

\* ------------------------------------------------------------------- C3

\* C3: every request with only known sources whose job_type, or whose
\* description_format, is present and outside its enumeration, whatever its
\* JSON type, is answered 400 with an error message containing that value.
\* Stated for the requests whose parameters parsed, so that the checks of
\* lines 667-677 are what answers.
C3_InvalidEnumRejected ==
    (/\ pc = "done"
     /\ ParseFailure(Locals(params)) = {}
     /\ ~SiteRuleBroken
     /\ JobTypeRuleBroken \/ FormatRuleBroken) =>
        /\ resp.status = 400
        /\ "error" \in resp.keys
        /\ Contains(resp.error,
                    PyStr(IF JobTypeRuleBroken THEN Effective("job_type")
                          ELSE Effective("description_format")))

\* ------------------------------------------------------------------- C4

\* C4: the library is called only once the source check, the job_type check
\* and the description_format check have all passed, and a request answered
\* as malformed (400, or ended by an exception of the checks) made no call.
C4_CallOnlyAfterValidation ==
    /\ calls # <<>> =>
        /\ pc \in {"serialise", "done"}
        /\ \A x \in Elems(p.site_name) : KnownName(x)
        /\ ~BadEnum(p.job_type, valid_job_types)
        /\ ~BadEnum(p.description_format, valid_formats)
    /\ (resp.status = 400 \/ resp.kind = "crash") => calls = <<>>

C4_Witness ==
    /\ calls # <<>>
    /\ p.job_type = PyStrV(<<"fulltime">>)
    /\ p.description_format = PyStrV(<<"html">>)

\* ------------------------------------------------------------------- C5

\* C5: a request that breaks more than one validation rule is answered with
\* the error of the first rule it breaks, in the order sources, job_type,
\* description_format.  Stated for the requests whose parameters parsed, so
\* that the checks of lines 659-677 are what answers.
C5_FirstViolatedRuleReported ==
    (/\ pc = "done"
     /\ ParseFailure(Locals(params)) = {}
     /\ \/ SiteRuleBroken /\ (JobTypeRuleBroken \/ FormatRuleBroken)
        \/ JobTypeRuleBroken /\ FormatRuleBroken) =>
        /\ resp.status = 400
        /\ resp.error # <<>>
        /\ resp.error[1] = (IF SiteRuleBroken THEN "Unknown site(s): "
                            ELSE "Invalid job_type ")

\* ------------------------------------------------------------------- C6

\* The source list the handler is asked for: the request's, or all sources.
RequestedOrAll == IF Truthy(RequestedSites) THEN RequestedSites ELSE SiteList(ALL_SITES)

C7_BodyWins ==
    (pc # "client" /\ request.is_json /\ request.body_kind = "object") =>
        LET want == [k \in RequestKeys |->
                        IF request.body[k] # Missing THEN request.body[k]
                        ELSE request.args[k]]
        IN  /\ params = want
            /\ pc \in {"validate", "scrape", "serialise"} => p = Locals(want)
            /\ calls # <<>> => calls[1] = Kwargs(Locals(want))
            /\ resp.status = 200 => resp.query = Echo(Kwargs(Locals(want)))

C7_Witness ==
    /\ pc = "done"
    /\ request.is_json
    /\ request.args["results_wanted"] = PyStrV(<<"1", "0">>)
    /\ request.body["results_wanted"] = PyInt(2)
    /\ resp.status = 200
    /\ calls[1]["results_wanted"] = PyInt(2)
    /\ resp.query["results_wanted"] = PyInt(2)

\* ------------------------------------------------------------------- C8

\* The request names no source: site_name absent or null, an empty text, a
\* text of nothing but commas and blanks, or an empty list.
NoSourcesSpecified ==
    LET v == Effective("site_name")
    IN  \/ v.t = "none"
        \/ v.t = "str" /\ \A i \in 1..Len(v.s) : v.s[i] \in {",", Blank}
        \/ v = PyList(<<>>)

\* C8: a request that names no source is handled with the full known source
\* set: the parsed source list, the site_name passed to the library and the
\* sites field of the success response are all that full set.
C8_DefaultAllSites ==
    (NoSourcesSpecified /\ pc \notin {"client", "parse"} /\ ParseFailure(Locals(params)) = {}) =>
        /\ FullSourceList(p.site_name)
        /\ \A i \in 1..Len(calls) : FullSourceList(calls[i]["site_name"])
        /\ resp.status = 200 => FullSourceList(resp.sites)

C8_Witness ==
    /\ pc = "done"
    /\ request.args["site_name"] = PyStrV(<<",", Blank>>)
    /\ resp.status = 200
    /\ FullSourceList(resp.sites)

\* ------------------------------------------------------------------- C9

SuccessFields == {"jobs", "count", "sites", "query"}

ErrorFields == {"error", "error_type", "parameters"}

\* C9 as stated: the success response has jobs, count, sites and query, and
\* every error response of the handler, 400 and 500 alike, has error,
\* error_type and parameters.
C9_ErrorFieldsOnEveryError ==
    (pc = "done" /\ resp.kind = "json") =>
        /\ resp.status = 200 => SuccessFields \subseteq resp.keys
        /\ resp.status \in {400, 500} => ErrorFields \subseteq resp.keys

\* C9 amended: the success response has exactly jobs, count, sites and query;
\* the 500 of a failed library call has exactly error, error_type and
\* parameters; the 400 of a validation failure has the field error alone.
C9_ResponseFields ==
    (pc = "done" /\ resp.kind = "json") =>
        /\ resp.status \in {200, 400, 500}
        /\ resp.status = 200 => resp.keys = SuccessFields
        /\ resp.status = 500 => resp.keys = ErrorFields
        /\ resp.status = 400 => resp.keys = {"error"}

C9_Witness ==
    /\ pc = "done"
    /\ resp.status = 400
    /\ resp.keys = {"error"}
    /\ JobTypeRuleBroken

\* ------------------------------------------------------------------ C10

\* C10: when the library call raises (no source of the known set is a
\* direct-API source, so no request names one), the response is 500, carries
\* the exception's message and type, echoes every parameter that was passed
\* to the call, and holds no jobs.
C10_LibraryFailureIsFatal ==
    ret.kind = "raise" =>
        /\ pc = "done"
        /\ resp.status = 500
        /\ resp.kind = "json"
        /\ resp.error = ret.exc.msg
        /\ resp.error_type = <<ret.exc.type>>
        /\ "parameters" \in resp.keys
        /\ \A k \in ParamKeys : resp.parameters[k] = calls[Len(calls)][k]
        /\ "jobs" \notin resp.keys
        /\ resp.jobs = <<>>

C10_Witness ==
    /\ ret.kind = "raise"
    /\ ret.exc.type = "ConnectionError"
    /\ resp.status = 500
    /\ resp.parameters["job_type"] = PyStrV(<<"contract">>)

\* ------------------------------------------------------------------ C11

\* C11 as stated: on every success response the query field has exactly the
\* keys and the values of the mapping passed to the library call.
C11_QueryIsCallArguments ==
    (pc = "done" /\ resp.status = 200) =>
        \A k \in KwKeys : resp.query[k] = calls[Len(calls)][k]

\* C11 amended: on every success response the query field has exactly the
\* keys and the values of the mapping passed to the library call other than
\* verbose, which is always passed as 0 and never echoed.
C11_QueryIsCallArgumentsButVerbose ==
    (pc = "done" /\ resp.status = 200) =>
        /\ "query" \in resp.keys
        /\ \A k \in KwKeys \ {"verbose"} : resp.query[k] = calls[Len(calls)][k]
        /\ resp.query["verbose"] = Missing
        /\ calls[Len(calls)]["verbose"] = PyInt(0)

C11_Witness ==
    /\ pc = "done"
    /\ resp.status = 200
    /\ calls[1]["search_term"] = PyStrV(<<"dev">>)
    /\ resp.query["search_term"] = PyStrV(<<"dev">>)
    /\ resp.query["job_type"] = PyStrV(<<"fulltime">>)
    /\ resp.query["hours_old"] = Missing

\* ------------------------------------------------------------------ C12

TabularFormats == {<<"csv">>, <<"excel">>}

\* C12: a valid request with output_format csv or excel, whose library call
\* returned (also with no records at all), is answered 200 with an
\* attachment of that format and not with the JSON envelope.
C12_TabularExport ==
    (/\ pc = "done"
     /\ ret.kind \in {"none", "df"}
     /\ Effective("output_format").t = "str"
     /\ Effective("output_format").s \in TabularFormats) =>
        /\ resp.status = 200
        /\ resp.kind = Effective("output_format").s[1]
        /\ resp.keys = {}

\* ------------------------------------------------------------------ C13

\* C13: when one requested source fails while another requested source was
\* fetched, the request is not failed: the response is 200, has the jobs
\* list, and sites lists every requested source.
C13_OneSourceFailureTolerated ==
    (pc = "done" /\ ret.kind = "raise" /\ ret.exc.one_source) =>
        /\ resp.status = 200
        /\ "jobs" \in resp.keys
        /\ "sites" \in resp.keys
        /\ resp.sites = RequestedOrAll

\* ------------------------------------------------------------------ C14

TrueSpellings ==
    {<<"1">>, <<"true">>, <<"True">>, <<"TRUE">>, <<"tRuE">>,
     <<"yes">>, <<"Yes">>, <<"YES">>, <<"yEs">>}

\* C15: _bool returns None for an absent value; true for native true, for a
\* nonzero integer and for the texts "1", "true", "yes" in any letter case;
\* false for every other value.
C15_BoolCoercion ==
    (h.fn = "_bool" /\ h.done) =>
        IF h.val.t = "none" THEN h.out = PyNone
        ELSE IF \/ h.val = PyBool(TRUE)
                \/ h.val.t = "int" /\ h.val.n # 0
                \/ h.val.t = "str" /\ h.val.s \in TrueSpellings
             THEN h.out = PyBool(TRUE)
        ELSE h.out = PyBool(FALSE)

C15_Witness ==
    /\ h.fn = "_bool"
    /\ h.done
    /\ h.val = PyStrV(<<"YES">>)
    /\ h.out = PyBool(TRUE)

\* ------------------------------------------------------------------ C16

\* C16: _int returns the parsed integer when the value is present, non-empty
\* and int() accepts it, the default when the value is absent, empty or
\* malformed, and for no value raises.
C16_IntCoercionNeverFails ==
    (h.fn = "_int" /\ h.done) =>
        /\ ~IsRaised(h.out)
        /\ h.out = IF h.val.t = "none" \/ h.val = PyStrV(<<>>) THEN h.default
                   ELSE IF IsRaised(IntCast(h.val)) THEN h.default
                   ELSE IntCast(h.val)

\* ------------------------------------------------------------------ C17

\* The elements _csv_list is given: those of the list, or the pieces of the
\* text between its commas, blanks around them removed, empty pieces left out.
GivenElements(val) ==
    IF val.t = "list" THEN val.l
    ELSE SelectSeq([i \in 1..Len(Split(PyStr(val))) |-> PyStrV(Strip(Split(PyStr(val))[i]))],
                   LAMBDA x : x.s # <<>>)

\* The elements that cast, cast, in their order.
CastKept(q, cast) ==
    LET ok == SelectSeq(q, LAMBDA x : ~IsRaised(CastElem(x, cast)))
    IN  [i \in 1..Len(ok) |-> CastElem(ok[i], cast)]

\* C17: _csv_list takes a list or a comma-separated text, casts each element,
\* drops the elements that fail to cast and keeps the others in order, and
\* returns None when no element remains; it never raises.
C17_ListCoercion ==
    (h.fn = "_csv_list" /\ h.done) =>
        /\ ~IsRaised(h.out)
        /\ h.out = IF h.val.t = "none" \/ CastKept(GivenElements(h.val), h.cast) = <<>>
                   THEN PyNone
                   ELSE PyList(CastKept(GivenElements(h.val), h.cast))

\* ------------------------------------------------------------------ C18

\* A floating-point NaN or infinity, or None, NaT or pd.NA.
NullLike(v) ==
    \/ v.t \in {"none", "nat", "na"}
    \/ v.t \in {"float", "float32"} /\ v.s \in {<<"nan">>, <<"inf">>, <<"-inf">>}

\* C18: every cell of the table that is a NaN, an infinity or a null-like
\* sentinel is None in the record of its row.
C18_NullLikeCellsAreNone ==
    (h.fn = "df_to_safe_records" /\ h.done) =>
        /\ Len(h.records) = Len(h.df.rows)
        /\ \A i \in 1..Len(h.df.rows) : \A j \in 1..Len(h.df.cols) :
                NullLike(h.df.rows[i][j]) => h.records[i].l[j] = PyNone

\* ------------------------------------------------------------------ C19

\* The number a run of decimal digits writes, or -1 when it is no such run.
Number(text) == IF AllDigits(text) THEN DigitsVal(text, 0) ELSE 0 - 1

\* text is YYYY-MM-DD of the date parts l.
IsIsoDate(text, l) ==
    /\ Len(text) = 10
    /\ text[5] = "-" /\ text[8] = "-"
    /\ Number(SubSeq(text, 1, 4)) = l[1].n
    /\ Number(SubSeq(text, 6, 7)) = l[2].n
    /\ Number(SubSeq(text, 9, 10)) = l[3].n

\* text is hh:mm:ss of the time parts l.
IsIsoTime(text, l) ==
    /\ Len(text) = 8
    /\ text[3] = ":" /\ text[6] = ":"
    /\ Number(SubSeq(text, 1, 2)) = l[4].n
    /\ Number(SubSeq(text, 4, 5)) = l[5].n
    /\ Number(SubSeq(text, 7, 8)) = l[6].n

\* out is the ISO-8601 text of the date or timestamp cell.
IsIso8601Of(out, cell) ==
    /\ out.t = "str"
    /\ IF cell.t = "date" THEN IsIsoDate(out.s, cell.l)
       ELSE /\ Len(out.s) = 19
            /\ IsIsoDate(SubSeq(out.s, 1, 10), cell.l)
            /\ out.s[11] = "T"
            /\ IsIsoTime(SubSeq(out.s, 12, 19), cell.l)

\* C19: every cell of the table that holds a date or a timestamp is its
\* ISO-8601 text in the record of its row.
C19_DatesAreIsoStrings ==
    (h.fn = "df_to_safe_records" /\ h.done) =>
        \A i \in 1..Len(h.df.rows) : \A j \in 1..Len(h.df.cols) :
            h.df.rows[i][j].t \in {"date", "datetime"} =>
                IsIso8601Of(h.records[i].l[j], h.df.rows[i][j])

C19_Witness ==
    /\ h.fn = "df_to_safe_records"
    /\ h.done
    /\ Len(h.df.rows) = 2
    /\ h.df.rows[1][2] = PyDate(2025, 1, 15)
    /\ h.df.rows[2][2] = PyDateTime(2024, 12, 3, 9, 5, 0)
    /\ h.records[1].l[2] = PyStrV(<<"2", "0", "2", "5", "-", "0", "1", "-", "1", "5">>)
    /\ h.records[2].l[2] =
         PyStrV(<<"2", "0", "2", "4", "-", "1", "2", "-", "0", "3", "T",
                  "0", "9", ":", "0", "5", ":", "0", "0">>)

\* ------------------------------------------------------------------ C20

\* The request breaks no validation rule and its parameters parse.
ValidRequest ==
    /\ ParseFailure(Locals(params)) = {}
    /\ ~SiteRuleBroken
    /\ ~JobTypeRuleBroken
    /\ ~FormatRuleBroken

\* C20: the library is never called a second time for a request, and a
\* valid request, once handled, has had exactly one call, whose site_name is
\* the whole list of requested sources.
C20_OneBatchedCall ==
    /\ Len(calls) <= 1
    /\ (pc \in {"serialise", "done"} /\ ValidRequest) =>
        /\ Len(calls) = 1
        /\ calls[1]["site_name"] = RequestedOrAll

C20_Witness ==
    /\ pc = "done"
    /\ ValidRequest
    /\ Len(calls) = 1
    /\ Len(calls[1]["site_name"].l) = 3
    /\ ret.kind = "raise"

\* ------------------------------------------------------------------ C21

\* The value of field k of a record of the response, Missing without it.
Field(rec, k) ==
    IF \E j \in 1..Len(rec.s) : rec.s[j] = k
    THEN rec.l[CHOOSE j \in 1..Len(rec.s) : rec.s[j] = k]
    ELSE Missing

\* jobs is one record for each row of the table, in the table's order, each
\* with one field for each cell of its row and the row's title under title.
OneRecordPerRow(jobs, df) ==
    /\ Len(jobs) = Len(df.rows)
    /\ \A i \in 1..Len(df.rows) :
        /\ Len(jobs[i].s) = Len(df.rows[i])
        /\ Range(jobs[i].s) = Range(df.cols)
        /\ Len(df.cols) > 0 => Field(jobs[i], df.cols[1]) = df.rows[i][1]

\* C21 as stated: whenever the library returned a table, the jobs list has
\* exactly one record for every row of the table, in the order the library
\* returned them, each with exactly the fields of its row.
C21_EveryRowOneRecord ==
    (pc = "done" /\ ret.kind = "df") => OneRecordPerRow(resp.jobs, ret.df)

\* The names of the table's columns are distinct.
DistinctColumns(df) == Cardinality(Range(df.cols)) = Len(df.cols)

\* C21 amended: whenever the library returned a table that has at least one
\* column, the jobs list has exactly one record for every row, in the
\* library's order, and, when the column names are distinct, each record has
\* exactly the fields of its row; of columns that share a name each record
\* keeps one field, with the last such cell; a table that has rows and no
\* column is answered as no jobs.
C21_EveryRowOfColumnsOneRecord ==
    (pc = "done" /\ ret.kind = "df") =>
        /\ DistinctColumns(ret.df) /\ Len(ret.df.cols) > 0
                => OneRecordPerRow(resp.jobs, ret.df)
        /\ Len(ret.df.cols) > 0 =>
            /\ Len(resp.jobs) = Len(ret.df.rows)
            /\ \A i \in 1..Len(resp.jobs) : \A j \in 1..Len(ret.df.cols) :
                  /\ Range(resp.jobs[i].s) = Range(ret.df.cols)
                  /\ Len(resp.jobs[i].s) = Cardinality(Range(ret.df.cols))
                  /\ (\A m \in (j + 1)..Len(ret.df.cols) : ret.df.cols[m] # ret.df.cols[j])
                        => Field(resp.jobs[i], ret.df.cols[j]) = SafeCell(ret.df.rows[i][j])
        /\ Len(ret.df.cols) = 0 => resp.jobs = <<>>

C21_Witness ==
    /\ pc = "done"
    /\ ret.kind = "df"
    /\ Len(resp.jobs) = 2
    /\ Field(resp.jobs[1], "title") = PyStrV(<<"Nurse">>)
    /\ Field(resp.jobs[2], "title") = PyStrV(<<"Engineer">>)
    /\ ret.df.rows[1][1] = PyStrV(<<"Nurse">>)

\* ------------------------------------------------------------------ C22

TriStateKeys == {"is_remote", "easy_apply"}

\* The boolean a supplied value stands for.
CoercedBool(v) ==
    IF v.t = "bool" THEN v
    ELSE IF v.t = "int" THEN PyBool(v.n # 0)
    ELSE PyBool(v.t = "str" /\ v.s \in TrueSpellings)

\* C22: for is_remote and easy_apply, a request that does not supply the
\* parameter has no such key in the arguments of the library call nor in the
\* echoed query; a request that supplies it has it there with its coerced
\* value, false included.
C22_TriStatePreserved ==
    calls # <<>> =>
        \A k \in TriStateKeys :
            LET want == IF Effective(k).t = "none" THEN Missing
                        ELSE CoercedBool(Effective(k))
            IN  /\ calls[1][k] = want
                /\ resp.status = 200 => resp.query[k] = want

C22_Witness ==
    /\ pc = "done"
    /\ resp.status = 200
    /\ request.is_json
    /\ request.body["is_remote"] = PyBool(FALSE)
    /\ request.args["easy_apply"] = PyStrV(<<"true">>)
    /\ calls[1]["is_remote"] = PyBool(FALSE)
    /\ resp.query["is_remote"] = PyBool(FALSE)
    /\ resp.query["easy_apply"] = PyBool(TRUE)

\* ------------------------------------------------------------------ C23

\* The integer the request asks for under k: its integer value, the integer
\* its text writes, or the default d when it is absent, empty or malformed.
IntWanted(k, d) ==
    LET v == Effective(k)
    IN  IF v.t = "int" THEN v
        ELSE IF v.t = "str" /\ ParseInt(v.s).ok THEN PyInt(ParseInt(v.s).n)
        ELSE PyInt(d)

FormatWanted ==
    LET v == Effective("description_format")
    IN  IF v.t = "str" /\ v.s \in valid_formats THEN v ELSE PyStrV(<<"markdown">>)

\* The four always-forwarded parameters as the request asks for them.
AlwaysForwarded ==
    [distance |-> IntWanted("distance", 50),
     results_wanted |-> IntWanted("results_wanted", 15),
     offset |-> IntWanted("offset", 0),
     description_format |-> FormatWanted]

\* C23: the arguments of every library call hold distance, results_wanted,
\* offset and description_format: the request's value when it supplies a
\* valid one, otherwise 50, 15, 0 and markdown; the success response echoes
\* the same values.
C23_DefaultsForwarded ==
    calls # <<>> =>
        \A k \in DOMAIN AlwaysForwarded :
            /\ calls[1][k] = AlwaysForwarded[k]
            /\ resp.status = 200 => resp.query[k] = AlwaysForwarded[k]

C23_Witness ==
    /\ pc = "done"
    /\ resp.status = 200
    /\ request.args["offset"] = PyStrV(<<"5">>)
    /\ request.args["distance"] = PyStrV(<<"abc">>)
    /\ calls[1]["offset"] = PyInt(5)
    /\ calls[1]["distance"] = PyInt(50)
    /\ resp.query["offset"] = PyInt(5)
    /\ resp.query["results_wanted"] = PyInt(15)
    /\ resp.query["description_format"] = PyStrV(<<"markdown">>)

\* ------------------------------------------------------------------ C25

\* C25: every request, whatever the library call does, ends with a response
\* of the handler's own: the 400 of a validation error, the 500 that reports
\* the failed call, or the 200 envelope; none ends in an exception of the
\* handler.
C25_EndsWithOwnResponse ==
    pc = "done" =>
        /\ resp.kind = "json"
        /\ \/ resp.status = 400 /\ resp.keys = {"error"}
           \/ resp.status = 500 /\ ret.kind = "raise" /\ resp.keys = ErrorFields
           \/ resp.status = 200 /\ resp.keys = SuccessFields

\* ------------------------------------------------------------------ C24

\* The response to request r handled with no other request in the process,
\* when its library call, if it makes one, does o.
Alone(r, o) ==
    LET l == Locals(Merged(r))
    IN  IF ParseFailure(l) # {} THEN Unhandled(CHOOSE e \in ParseFailure(l) : TRUE)
        ELSE IF Validation(l) # NoResp THEN Validation(l)
        ELSE IF o.kind = "raise" THEN ScrapeFailed(o.exc, Kwargs(l))
        ELSE Serialised(o, l)

====
